---- MODULE Spec2Model ----
(***************************************************************************)
(* The bulk e-mail dispatch pipeline of the email-sender repository:       *)
(* the POST /api/send-emails handler (src/pages/api/send-emails.ts), its   *)
(* per-recipient task sendSingleEmail, the record store it reads and       *)
(* writes, the tmp upload directory, and the template validation of        *)
(* the template utilities (validateTemplate).                              *)
(*                                                                         *)
(* Strings whose characters matter (subject, content) are sequences of     *)
(* one-character strings.  Sizes are in MiB.  Each invocation of the       *)
(* handler is a run r; its local variables are the fields of runs[r].      *)
(***************************************************************************)
EXTENDS Integers, Sequences, FiniteSets, TLC

\* store: the records of prisma.email.  runs: the invocations of the handler.
\* ui: the attachments of the campaign manager component and the answer to
\* the attachments it, or another client, posts.  call: a call of parseTemplate.
VARIABLES store, runs, ui, call

vars == <<store, runs, ui, call>>

(***************************************************************************)
(* Bounds of the model.                                                    *)
(***************************************************************************)
\* Number of recipient records in the store.
NumRecipients == 2
\* Number of invocations of the handler in one behaviour.
MaxRuns == 2
\* Number of file parts in one multipart request.
MaxFiles == 2
\* Number of files in the attachment list of the campaign manager, and of file
\* parts in a request whose intake alone is followed.
MaxIntakeFiles == 3
\* Number of keys of the data of a parseTemplate call.
MaxKeys == 2

(***************************************************************************)
(* Program constants.                                                      *)
(***************************************************************************)
\* maxFileSize: 10 * 1024 * 1024 bytes, in MiB.
MaxFileSize == 10
\* The limit of handleAttachmentAdd: 25 * 1024 * 1024 bytes, in MiB.
MaxTotalSize == 25

PDF == "application/pdf"

Ids == 1..NumRecipients
Runs == 1..MaxRuns

\* The unique e-mail address of a record.
EmailOf(id) == <<"rcpt", id>>

(***************************************************************************)
(* Strings as character sequences.                                         *)
(***************************************************************************)
Str_Hi == <<"H", "i">>
Str_x == <<"x">>
Str_name == <<"n", "a", "m", "e">>
Str_company == <<"c", "o", "m", "p", "a", "n", "y">>
Str_position == <<"p", "o", "s", "i", "t", "i", "o", "n">>
Str_foo == <<"f", "o", "o">>

Token(key) == <<"{", "{">> \o key \o <<"}", "}">>

BoundedSeq(S, n) == UNION { [1..k -> S] : k \in 0..n }

\* Subjects and contents a client may post.
Subjects == { <<>>, Str_Hi \o <<" ">> \o Token(Str_name) }
Contents == { <<>>, Str_x, Token(Str_foo) }

(***************************************************************************)
(* validateTemplate (template utilities).                                  *)
(***************************************************************************)
IsSpace(c) == c \in {" ", "\t", "\n"}

RECURSIVE TrimStart(_)
TrimStart(s) ==
    IF s # <<>> /\ IsSpace(Head(s)) THEN TrimStart(Tail(s)) ELSE s

RECURSIVE TrimEnd(_)
TrimEnd(s) ==
    IF s # <<>> /\ IsSpace(s[Len(s)]) THEN TrimEnd(SubSeq(s, 1, Len(s) - 1)) ELSE s

\* String.prototype.trim
Trim(s) == TrimEnd(TrimStart(s))

IsBrace(c) == c \in {"{", "}"}

\* Length of the longest run of characters other than { and } starting at i:
\* what the greedy [^{}]+ consumes.
RECURSIVE NonBraceRun(_, _)
NonBraceRun(s, i) ==
    IF i <= Len(s) /\ ~IsBrace(s[i]) THEN 1 + NonBraceRun(s, i + 1) ELSE 0

\* Whether /{{([^{}]+)}}/ matches at position i of s.
MatchAt(s, i) ==
    LET k == NonBraceRun(s, i + 2)
    IN  /\ i + 1 <= Len(s)
        /\ s[i] = "{"
        /\ s[i + 1] = "{"
        /\ k >= 1
        /\ i + 3 + k <= Len(s)
        /\ s[i + 2 + k] = "}"
        /\ s[i + 3 + k] = "}"

\* [...s.matchAll(/{{([^{}]+)}}/g)].map(match => match[1]), scanning from i.
RECURSIVE MatchAll(_, _)
MatchAll(s, i) ==
    IF i > Len(s) THEN <<>>
    ELSE IF MatchAt(s, i)
         THEN LET k == NonBraceRun(s, i + 2)
              IN  <<SubSeq(s, i + 2, i + 1 + k)>> \o MatchAll(s, i + 4 + k)
         ELSE MatchAll(s, i + 1)

InSeq(x, seq) == \E i \in 1..Len(seq) : seq[i] = x

\* new Set([...]) iterated by forEach: first occurrences, in insertion order.
RECURSIVE Distinct(_, _)
Distinct(seq, seen) ==
    IF seq = <<>> THEN <<>>
    ELSE IF InSeq(Head(seq), seen) THEN Distinct(Tail(seq), seen)
         ELSE <<Head(seq)>> \o Distinct(Tail(seq), Append(seen, Head(seq)))

supportedPlaceholders == <<Str_name, Str_company, Str_position>>

RECURSIVE UnsupportedErrors(_)
UnsupportedErrors(keys) ==
    IF keys = <<>> THEN <<>>
    ELSE (IF InSeq(Head(keys), supportedPlaceholders) THEN <<>>
          ELSE << <<"Unsupported placeholder", Head(keys)>> >>)
         \o UnsupportedErrors(Tail(keys))

\* validateTemplate({subject, body}): the list of errors.
validateTemplate(subject, body) ==
    LET allPlaceholders == Distinct(MatchAll(subject, 1) \o MatchAll(body, 1), <<>>)
    IN  (IF Trim(subject) = <<>> THEN << <<"Subject is required">> >> ELSE <<>>)
        \o (IF Trim(body) = <<>> THEN << <<"Body is required">> >> ELSE <<>>)
        \o UnsupportedErrors(allPlaceholders)

(***************************************************************************)
(* parseTemplate (template utilities).  The data of a call is the sequence *)
(* of its entries <<key, value>>, in the order of Object.entries.  Keys    *)
(* and values hold no character that is special in a regular expression    *)
(* or in a replacement string.                                             *)
(***************************************************************************)
\* Whether pat occurs in s at position i.
StartsAt(s, i, pat) ==
    /\ i + Len(pat) - 1 <= Len(s)
    /\ SubSeq(s, i, i + Len(pat) - 1) = pat

\* s.replace(new RegExp(pat, 'g'), val) from position i on, for a pattern
\* that matches the text pat only: the matches are found left to right in s,
\* and the text put in is not scanned again by this call.
RECURSIVE ReplaceFrom(_, _, _, _)
ReplaceFrom(s, i, pat, val) ==
    IF i > Len(s) THEN <<>>
    ELSE IF StartsAt(s, i, pat)
         THEN val \o ReplaceFrom(s, i + Len(pat), pat, val)
         ELSE <<s[i]>> \o ReplaceFrom(s, i + 1, pat, val)

\* Object.entries(data).forEach(([key, value]) => { s = s.replace(...) }),
\* from entry n on.
RECURSIVE ReplaceEntries(_, _, _)
ReplaceEntries(s, data, n) ==
    IF n > Len(data) THEN s
    ELSE ReplaceEntries(ReplaceFrom(s, 1, Token(data[n][1]), data[n][2]), data, n + 1)

parseTemplate(template, data) ==
    [subject |-> ReplaceEntries(template.subject, data, 1),
     body    |-> ReplaceEntries(template.body, data, 1)]

\* The templates and the data of the calls followed.
Str_J == <<"J">>

TemplateSubjects ==
    { Token(Str_name), Str_Hi \o <<" ">> \o Token(Str_name) \o Token(Str_company) }

TemplateBodies == { Str_x, Token(Str_company), Token(Str_position) \o Str_x }

PlaceholderKeys == {Str_name, Str_company, Str_position}

PlaceholderValues == { <<>>, Str_J, Token(Str_name), Token(Str_company) }

\* The data with at most MaxKeys keys: entries with distinct keys, in any order.
DataMaps ==
    { d \in BoundedSeq(PlaceholderKeys \X PlaceholderValues, MaxKeys) :
        \A i, j \in 1..Len(d) : i # j => d[i][1] # d[j][1] }

NoCall == [done |-> TRUE, template |-> [subject |-> <<>>, body |-> <<>>],
           data |-> <<>>, result |-> [subject |-> <<>>, body |-> <<>>]]

(***************************************************************************)
(* The record store (prisma.email) and the recipient records.              *)
(***************************************************************************)
\* A record as prisma.email.create leaves it: status defaults to PENDING.
NewRecord(id) ==
    [emailAddress |-> EmailOf(id), status |-> "PENDING", errorMessage |-> "null",
     sentAt |-> "null", metadata |-> "null"]

\* prisma.email.update({data: {status: 'SENT', sentAt, errorMessage: null, metadata}})
UpdateSent(rec) ==
    [rec EXCEPT !.status = "SENT", !.sentAt = "now", !.errorMessage = "null",
                !.metadata = "attachments"]

\* prisma.email.update({data: {status: 'FAILED', errorMessage, metadata}})
UpdateFailed(rec, errorMessage) ==
    [rec EXCEPT !.status = "FAILED", !.errorMessage = errorMessage,
                !.metadata = "lastError"]

\* Sequence of the elements of a set of integers, ascending.
RECURSIVE Ascending(_)
Ascending(S) ==
    IF S = {} THEN <<>>
    ELSE LET m == CHOOSE x \in S : \A y \in S : x <= y
         IN  <<m>> \o Ascending(S \ {m})

\* prisma.email.findMany({where: {status: 'PENDING'}}): the pending records, in
\* the store's order.
FindPending(st) ==
    LET ids == Ascending({id \in Ids : st[id].status = "PENDING"})
    IN  [i \in 1..Len(ids) |-> [id |-> ids[i], emailAddress |-> st[ids[i]].emailAddress]]

(***************************************************************************)
(* The multipart request and parseForm.                                    *)
(***************************************************************************)
\* The file parts a client may post: [key, mimetype, size in MiB].  A key is
\* kept by its prefix; the UI names its parts attachment0, attachment1, ...
PartKinds ==
    { [key |-> "attachment", mimetype |-> PDF, size |-> 5],
      [key |-> "attachment", mimetype |-> PDF, size |-> 11],
      [key |-> "attachment", mimetype |-> "text/plain", size |-> 5],
      [key |-> "file", mimetype |-> PDF, size |-> 5] }

\* formidable's filter option: only parts whose mimetype is application/pdf are
\* received.
Filter(part) == part.mimetype = PDF

\* Indexes of the parts the filter accepts, ascending, from part i on.
RECURSIVE Kept(_, _)
Kept(parts, i) ==
    IF i > Len(parts) THEN <<>>
    ELSE (IF Filter(parts[i]) THEN <<i>> ELSE <<>>) \o Kept(parts, i + 1)

\* parseForm: formidable writes each part the filter accepts to a file of its
\* own in the tmp directory (filepath n for part n of the request) and fails
\* with an error when a received file is larger than maxFileSize.
parseForm(parts) ==
    LET kept == Kept(parts, 1)
    IN  [err   |-> \E i \in 1..Len(kept) : parts[kept[i]].size > MaxFileSize,
         files |-> [i \in 1..Len(kept) |->
                      [filepath |-> kept[i], key |-> parts[kept[i]].key,
                       mimetype |-> parts[kept[i]].mimetype,
                       size |-> parts[kept[i]].size]]]

\* The check with the test of the content left out.
MissingFields_SubjectOnly(subject, content) == subject = <<>>

\* !subject || !content
MissingFields(subject, content) == subject = <<>> \/ content = <<>>

(***************************************************************************)
(* The attachment loop of the handler.                                     *)
(***************************************************************************)
\* for (const [key, fileArray] of Object.entries(files)) {...}, from file i on.
\* failAt is the index of the file whose fs.access / fs.readFile throws (0: none).
\* outcome: "ok" (loop ended), or the response the loop returned with.
RECURSIVE ProcessFiles(_, _, _, _, _)
ProcessFiles(files, i, failAt, attachments, filesToDelete) ==
    IF i > Len(files)
    THEN [outcome |-> "ok", attachments |-> attachments, filesToDelete |-> filesToDelete]
    ELSE LET file == files[i]
             stop(o) == [outcome |-> o, attachments |-> attachments,
                         filesToDelete |-> filesToDelete]
         IN  IF file.key # "attachment"
             THEN ProcessFiles(files, i + 1, failAt, attachments, filesToDelete)
             ELSE IF file.mimetype # PDF THEN stop("type")
             ELSE IF file.size > MaxFileSize THEN stop("size")
             ELSE IF i = failAt THEN stop("readError")
             ELSE ProcessFiles(files, i + 1, failAt,
                               Append(attachments, [filename |-> file.filepath]),
                               Append(filesToDelete, file.filepath))

(***************************************************************************)
(* The attachment list of the campaign manager (EmailCampaignManager) and  *)
(* the intake of the attachments of a request.  A file of the list is      *)
(* [mimetype, size in MiB].                                                *)
(***************************************************************************)
UiFiles ==
    { [mimetype |-> PDF, size |-> 5],
      [mimetype |-> PDF, size |-> 10],
      [mimetype |-> PDF, size |-> 11],
      [mimetype |-> "text/plain", size |-> 5] }

\* reduce((sum, att) => sum + att.file.size, 0)
RECURSIVE TotalSize(_)
TotalSize(files) ==
    IF files = <<>> THEN 0 ELSE Head(files).size + TotalSize(Tail(files))

\* handleAttachmentAdd: the new files are appended unless the total of the
\* list and the new files exceeds the limit; no other test is made.
handleAttachmentAdd(attachments, files) ==
    IF TotalSize(attachments \o files) > MaxTotalSize
    THEN [attachments |-> attachments, rejected |-> TRUE]
    ELSE [attachments |-> attachments \o files, rejected |-> FALSE]

\* handleAttachmentRemove
handleAttachmentRemove(attachments, i) ==
    [k \in 1..(Len(attachments) - 1) |->
        IF k < i THEN attachments[k] ELSE attachments[k + 1]]

\* handleSendEmails: the parts attachment0, attachment1, ... of the form data.
FormParts(attachments) ==
    [i \in 1..Len(attachments) |->
        [key |-> "attachment", mimetype |-> attachments[i].mimetype,
         size |-> attachments[i].size]]

\* The handler's intake of the file parts of a request that has a subject and
\* a content, a transport that verifies and a pending recipient: parseForm,
\* then the loop over the files.  The outcome is "parseError" (the rejection
\* of parseForm, answered by the handler's catch), or that of the loop.
Intake(parts) ==
    LET form == parseForm(parts)
    IN  IF form.err
        THEN [outcome |-> "parseError", attachments |-> <<>>, filesToDelete |-> <<>>]
        ELSE ProcessFiles(form.files, 1, 0, <<>>, <<>>)

\* The size of the attachments a run sends with each email.
AttachedSize(parts, attachments) ==
    TotalSize([i \in 1..Len(attachments) |-> parts[attachments[i].filename]])

IdleUi == [attachments |-> <<>>, notification |-> "none",
           posted |-> <<>>, outcome |-> "none", attached |-> 0]

(***************************************************************************)
(* sendSingleEmail: one task per pending record.                           *)
(***************************************************************************)
\* The task as sendSingleEmail starts it: transporter.sendMail is called.
NewTask(emailRecord) ==
    [id |-> emailRecord.id, emailAddress |-> emailRecord.emailAddress,
     pc |-> "sendMail", sendCalls |-> 1, sendOk |-> "pending",
     writes |-> <<>>, failedWrites |-> 0, caught |-> "none",
     value |-> [success |-> FALSE, email |-> emailRecord.emailAddress, error |-> "none"],
     reason |-> "none"]

\* The task once sendMail has settled: the update of the status is called
\* (SENT in the try block, FAILED in the catch block).
AfterSendMail(t, ok) ==
    IF ok
    THEN [t EXCEPT !.pc = "updateSent", !.sendOk = "ok",
                   !.writes = Append(@, "SENT")]
    ELSE [t EXCEPT !.pc = "updateFailed", !.sendOk = "error",
                   !.caught = "SMTP error", !.writes = Append(@, "FAILED")]

\* The task once its prisma.email.update has settled.  A failed update of SENT
\* is thrown inside the try block: the catch block calls the update of FAILED.
\* A failed update of FAILED is thrown out of the catch block: the task rejects.
AfterUpdate(t, ok) ==
    IF t.pc = "updateSent"
    THEN IF ok
         THEN [t EXCEPT !.pc = "fulfilled",
                        !.value = [success |-> TRUE, email |-> t.emailAddress,
                                   error |-> "none"]]
         ELSE [t EXCEPT !.pc = "updateFailed", !.caught = "DB error",
                        !.failedWrites = @ + 1, !.writes = Append(@, "FAILED")]
    ELSE IF ok
         THEN [t EXCEPT !.pc = "fulfilled",
                        !.value = [success |-> FALSE, email |-> t.emailAddress,
                                   error |-> t.caught]]
         ELSE [t EXCEPT !.pc = "rejected", !.failedWrites = @ + 1,
                        !.reason = "DB error"]

\* The record once the update that task t called has settled.
RecordAfterUpdate(rec, t, ok) ==
    IF ~ok THEN rec
    ELSE IF t.pc = "updateSent" THEN UpdateSent(rec)
    ELSE UpdateFailed(rec, t.caught)

Settled(t) == t.pc \in {"fulfilled", "rejected"}

\* The join as Promise.race would make it: over with the first task settled.
Joined_FirstSettled(tasks) ==
    IF \E i \in 1..Len(tasks) : Settled(tasks[i]) THEN "fulfilled" ELSE "pending"

\* The join as Promise.all would make it: it rejects with the first rejection.
Joined_PromiseAll(tasks) ==
    IF \E i \in 1..Len(tasks) : tasks[i].pc = "rejected" THEN "rejected"
    ELSE IF \A i \in 1..Len(tasks) : Settled(tasks[i]) THEN "fulfilled"
    ELSE "pending"

\* await Promise.allSettled(tasks): "pending" until every task has settled, then
\* "fulfilled"; it never rejects.
Joined(tasks) ==
    IF \A i \in 1..Len(tasks) : Settled(tasks[i]) THEN "fulfilled" ELSE "pending"

(***************************************************************************)
(* The report of the handler.                                              *)
(***************************************************************************)
\* The count without the test of value.success.
successCount_Fulfilled(tasks) ==
    Cardinality({i \in 1..Len(tasks) : tasks[i].pc = "fulfilled"})

\* results.filter(r => r.status === 'fulfilled' && r.value.success).length
successCount(tasks) ==
    Cardinality({i \in 1..Len(tasks) : tasks[i].pc = "fulfilled" /\ tasks[i].value.success})

\* The results without those of the rejected tasks.
RECURSIVE FulfilledValues(_)
FulfilledValues(tasks) ==
    IF tasks = <<>> THEN <<>>
    ELSE (IF Head(tasks).pc = "fulfilled" THEN <<Head(tasks).value>> ELSE <<>>)
         \o FulfilledValues(Tail(tasks))

ReportResults_OnlyFulfilled(tasks, pendingEmails) == FulfilledValues(tasks)

\* results.map((result, index) => ...)
ReportResults(tasks, pendingEmails) ==
    [i \in 1..Len(tasks) |->
        IF tasks[i].pc = "fulfilled" THEN tasks[i].value
        ELSE [email |-> pendingEmails[i].emailAddress, success |-> FALSE,
              error |-> tasks[i].reason]]

Statistics(tasks, attachments) ==
    [total |-> Len(tasks), success |-> successCount(tasks),
     failed |-> Len(tasks) - successCount(tasks), attachments |-> Len(attachments)]

Report(tasks, pendingEmails, attachments) ==
    [status |-> 200, message |-> "Successfully sent",
     results |-> ReportResults(tasks, pendingEmails),
     statistics |-> Statistics(tasks, attachments)]

Response(status, message) == [status |-> status, message |-> message]

NoResponse == Response(0, "none")

(***************************************************************************)
(* The handler: one run per invocation.                                    *)
(***************************************************************************)
\* The local variables of an invocation that has not started.  uploaded is the
\* set of files of this request that exist in the tmp directory.
IdleRun ==
    [pc |-> "idle", subject |-> <<>>, content |-> <<>>, uploaded |-> {},
     files |-> <<>>, attachments |-> <<>>, filesToDelete |-> <<>>,
     verifyCalls |-> 0, verified |-> "none", pendingEmails |-> <<>>,
     tasks |-> <<>>, res |-> NoResponse]

Range(seq) == { seq[i] : i \in 1..Len(seq) }

\* for (const filepath of filesToDelete) { try { access; unlink } catch {...} }:
\* the files left in the tmp directory; failing are those whose unlink throws.
Cleanup(uploaded, filesToDelete, failing) ==
    uploaded \ (Range(filesToDelete) \ failing)

Respond(run, res) == [run EXCEPT !.pc = "responded", !.res = res]

\* catch (mainError) {...}: clean up and answer 500.
CatchMain(run, failing) ==
    Respond([run EXCEPT !.uploaded = Cleanup(@, run.filesToDelete, failing)],
            Response(500, "Failed to send emails"))

\* const { fields, files } = await parseForm(req); the check of the fields;
\* createTransporter() and the call of transporter.verify().  A parse that
\* fails hands the handler no file path: what formidable leaves in the tmp
\* directory then is not followed.
Received(run, subject, content, parts) ==
    LET form == parseForm(parts)
        got  == [run EXCEPT !.subject = subject, !.content = content,
                            !.files = form.files,
                            !.uploaded = { form.files[i].filepath : i \in 1..Len(form.files) }]
    IN  IF form.err THEN CatchMain(run, {})
        ELSE IF MissingFields(subject, content)
        THEN Respond(got, Response(400, "Missing required fields: subject and content"))
        ELSE [got EXCEPT !.pc = "verify", !.verifyCalls = @ + 1]

\* The handler going on to findMany whatever verify() answered.
Verified_Ignored(run, ok, failing) ==
    [run EXCEPT !.pc = "findMany", !.verified = IF ok THEN "ok" ELSE "error"]

\* await transporter.verify() has settled; prisma.email.findMany is called.
Verified(run, ok, failing) ==
    IF ok THEN [run EXCEPT !.pc = "findMany", !.verified = "ok"]
    ELSE CatchMain([run EXCEPT !.verified = "error"], failing)

\* await prisma.email.findMany(...) has settled; the check of the empty set.
Found(run, st, ok, failing) ==
    IF ~ok THEN CatchMain(run, failing)
    ELSE LET pendingEmails == FindPending(st)
         IN  IF Len(pendingEmails) = 0
             THEN Respond(run, Response(200, "No pending emails to send"))
             ELSE [run EXCEPT !.pc = "attachments", !.pendingEmails = pendingEmails]

\* The attachment loop has ended or has returned a response.
Attached(run, failAt) ==
    LET p   == ProcessFiles(run.files, 1, failAt, <<>>, <<>>)
        got == [run EXCEPT !.attachments = p.attachments,
                           !.filesToDelete = p.filesToDelete]
    IN  CASE p.outcome = "ok" -> [got EXCEPT !.pc = "fanout"]
          [] p.outcome = "type" -> Respond(got, Response(400, "Only PDF files are allowed"))
          [] p.outcome = "size" ->
                Respond(got, Response(400, "PDF file size must be less than 10MB"))
          [] OTHER -> Respond(got, Response(500, "Error processing attachment"))

\* pendingEmails.map(emailRecord => sendSingleEmail(...)): every task starts.
FannedOut(run) ==
    [run EXCEPT !.pc = "join",
                !.tasks = [i \in 1..Len(run.pendingEmails) |-> NewTask(run.pendingEmails[i])]]

\* The await of the join is over: clean up and answer with the report; a
\* rejection of the join is thrown to catch (mainError).
JoinedRun(run, failing) ==
    IF Joined(run.tasks) = "rejected" THEN CatchMain(run, failing)
    ELSE Respond([run EXCEPT !.uploaded = Cleanup(@, run.filesToDelete, failing)],
                 Report(run.tasks, run.pendingEmails, run.attachments))

Active(run) == run.pc \notin {"idle", "returned"}

(***************************************************************************)
(* Actions.                                                                *)
(***************************************************************************)
Init ==
    /\ store = [id \in Ids |-> NewRecord(id)]
    /\ runs = [r \in Runs |-> IdleRun]
    /\ ui = IdleUi
    /\ call = NoCall

\* The store after an earlier run has sent to every recipient but the first,
\* whose record is still pending.
InitOverlap ==
    /\ store = [id \in Ids |-> IF id = 1 THEN NewRecord(id) ELSE UpdateSent(NewRecord(id))]
    /\ runs = [r \in Runs |-> IdleRun]
    /\ ui = IdleUi
    /\ call = NoCall

\* A POST request arrives while no other invocation is in progress.
Request(r) ==
    /\ runs[r].pc = "idle"
    /\ \A q \in Runs : q < r => runs[q].pc # "idle"
    /\ \A q \in Runs : ~Active(runs[q])
    /\ \E subject \in Subjects, content \in Contents, parts \in BoundedSeq(PartKinds, MaxFiles) :
          runs' = [runs EXCEPT ![r] = Received(@, subject, content, parts)]
    /\ UNCHANGED <<store, ui, call>>

\* A POST request arrives while another invocation is in progress.
OverlappingRequest(r) ==
    /\ runs[r].pc = "idle"
    /\ \A q \in Runs : q < r => runs[q].pc # "idle"
    /\ \E q \in Runs : Active(runs[q])
    /\ \E subject \in Subjects, content \in Contents, parts \in BoundedSeq(PartKinds, MaxFiles) :
          runs' = [runs EXCEPT ![r] = Received(@, subject, content, parts)]
    /\ UNCHANGED <<store, ui, call>>

VerifySettle(r) ==
    /\ runs[r].pc = "verify"
    /\ \E ok \in BOOLEAN, failing \in SUBSET Range(runs[r].filesToDelete) :
          runs' = [runs EXCEPT ![r] = Verified(@, ok, failing)]
    /\ UNCHANGED <<store, ui, call>>

FindManySettle(r) ==
    /\ runs[r].pc = "findMany"
    /\ \E ok \in BOOLEAN, failing \in SUBSET Range(runs[r].filesToDelete) :
          runs' = [runs EXCEPT ![r] = Found(@, store, ok, failing)]
    /\ UNCHANGED <<store, ui, call>>

Attach(r) ==
    /\ runs[r].pc = "attachments"
    /\ \E failAt \in 0..Len(runs[r].files) :
          runs' = [runs EXCEPT ![r] = Attached(@, failAt)]
    /\ UNCHANGED <<store, ui, call>>

FanOut(r) ==
    /\ runs[r].pc = "fanout"
    /\ runs' = [runs EXCEPT ![r] = FannedOut(@)]
    /\ UNCHANGED <<store, ui, call>>

\* transporter.sendMail of task i of run r settles.
SendMailSettle(r, i) ==
    /\ runs[r].pc = "join"
    /\ i \in 1..Len(runs[r].tasks)
    /\ runs[r].tasks[i].pc = "sendMail"
    /\ \E ok \in BOOLEAN :
          runs' = [runs EXCEPT ![r].tasks[i] = AfterSendMail(@, ok)]
    /\ UNCHANGED <<store, ui, call>>

\* prisma.email.update of task i of run r settles.
UpdateSettle(r, i) ==
    /\ runs[r].pc = "join"
    /\ i \in 1..Len(runs[r].tasks)
    /\ runs[r].tasks[i].pc \in {"updateSent", "updateFailed"}
    /\ \E ok \in BOOLEAN :
          LET t == runs[r].tasks[i]
          IN  /\ runs' = [runs EXCEPT ![r].tasks[i] = AfterUpdate(t, ok)]
              /\ store' = [store EXCEPT ![t.id] = RecordAfterUpdate(@, t, ok)]
    /\ UNCHANGED <<ui, call>>

Join(r) ==
    /\ runs[r].pc = "join"
    /\ Joined(runs[r].tasks) # "pending"
    /\ \E failing \in SUBSET Range(runs[r].filesToDelete) :
          runs' = [runs EXCEPT ![r] = JoinedRun(@, failing)]
    /\ UNCHANGED <<store, ui, call>>

\* The handler returns; its local variables are gone.  The files it left in
\* the tmp directory stay there, and no later invocation reads them: the model
\* follows them no further.
Return(r) ==
    /\ runs[r].pc = "responded"
    /\ runs' = [runs EXCEPT ![r] = [IdleRun EXCEPT !.pc = "returned"]]
    /\ UNCHANGED <<store, ui, call>>

Step(r) ==
    \/ VerifySettle(r)
    \/ FindManySettle(r)
    \/ Attach(r)
    \/ FanOut(r)
    \/ \E i \in 1..NumRecipients : SendMailSettle(r, i)
    \/ \E i \in 1..NumRecipients : UpdateSettle(r, i)
    \/ Join(r)
    \/ Return(r)

\* Invocations one after the other.
Next == \E r \in Runs : Request(r) \/ Step(r)

Spec == Init /\ [][Next]_vars

\* Invocations one after the other, in which every call that an invocation
\* awaits settles and the continuation of a settled call is run.
FairSpec == Spec /\ \A r \in Runs : WF_vars(Step(r))

\* Invocations that may overlap in time.
NextOverlap == \E r \in Runs : Request(r) \/ OverlappingRequest(r) \/ Step(r)

SpecOverlap == InitOverlap /\ [][NextOverlap]_vars

(***************************************************************************)
(* The attachments alone: the list of the campaign manager, its request    *)
(* and the request of any other client of the endpoint.                    *)
(***************************************************************************)
\* The user picks files in the file input (which has no accept attribute).
AttachmentAdd ==
    \E files \in BoundedSeq(UiFiles, MaxIntakeFiles) \ {<<>>} :
        /\ Len(ui.attachments) + Len(files) <= MaxIntakeFiles
        /\ LET added == handleAttachmentAdd(ui.attachments, files)
           IN  ui' = [ui EXCEPT !.attachments = added.attachments,
                                !.notification = IF added.rejected THEN "error" ELSE @]
        /\ UNCHANGED <<store, runs, call>>

AttachmentRemove ==
    \E i \in 1..Len(ui.attachments) :
        /\ ui' = [ui EXCEPT !.attachments = handleAttachmentRemove(@, i)]
        /\ UNCHANGED <<store, runs, call>>

\* The answer of the handler's intake to the parts posted.
Posted(u, parts) ==
    LET intake == Intake(parts)
    IN  [u EXCEPT !.posted = parts, !.outcome = intake.outcome,
                  !.attached = AttachedSize(parts, intake.attachments)]

\* handleSendEmails posts the list; an answer that is ok clears the list and
\* notifies success, any other answer notifies an error.
SendEmails ==
    /\ LET answered == Posted(ui, FormParts(ui.attachments))
       IN  ui' = IF answered.outcome = "ok"
                 THEN [answered EXCEPT !.attachments = <<>>, !.notification = "success"]
                 ELSE [answered EXCEPT !.notification = "error"]
    /\ UNCHANGED <<store, runs, call>>

\* Another client posts file parts to the endpoint.
DirectPost ==
    /\ \E parts \in BoundedSeq({ [key |-> "attachment", mimetype |-> f.mimetype, size |-> f.size] : f \in UiFiles }, MaxIntakeFiles) :
          ui' = Posted(ui, parts)
    /\ UNCHANGED <<store, runs, call>>

NextIntake == AttachmentAdd \/ AttachmentRemove \/ SendEmails \/ DirectPost

SpecIntake == Init /\ [][NextIntake]_vars

(***************************************************************************)
(* The calls of parseTemplate.                                             *)
(***************************************************************************)
InitTemplate ==
    /\ store = [id \in Ids |-> NewRecord(id)]
    /\ runs = [r \in Runs |-> IdleRun]
    /\ ui = IdleUi
    /\ \E subject \in TemplateSubjects, body \in TemplateBodies, data \in DataMaps :
          call = [done |-> FALSE, template |-> [subject |-> subject, body |-> body],
                  data |-> data, result |-> [subject |-> <<>>, body |-> <<>>]]

ParseTemplateCall ==
    /\ ~call.done
    /\ call' = [call EXCEPT !.done = TRUE,
                            !.result = parseTemplate(call.template, call.data)]
    /\ UNCHANGED <<store, runs, ui>>

NextTemplate == ParseTemplateCall

SpecTemplate == InitTemplate /\ [][NextTemplate]_vars

(***************************************************************************)
(* Properties.                                                             *)
(***************************************************************************)
TaskIdx(r) == 1..Len(runs[r].tasks)

Responded(r) == runs[r].pc = "responded"

\* Run r has answered with the report of a dispatch.
Reported(r) == Responded(r) /\ runs[r].res.message = "Successfully sent"

\* Run r has started its tasks.
Dispatching(r) == runs[r].pc = "join" \/ Reported(r)

\* The tasks of run r whose transport send failed.
FailedSends(r) == {i \in TaskIdx(r) : runs[r].tasks[i].sendOk = "error"}

\* C1: in one dispatch run, whatever the transport send and the store updates
\* do, exactly one terminal status write (SENT or FAILED) is issued for each
\* attempted recipient, and none for a record that was not pending at run start.
C1_ExactlyOneStatusWrite ==
    \A r \in Runs :
        Dispatching(r) =>
            \A i \in TaskIdx(r) :
                /\ runs[r].tasks[i].id = runs[r].pendingEmails[i].id
                /\ Len(runs[r].tasks[i].writes) <= 1
                /\ Settled(runs[r].tasks[i]) => Len(runs[r].tasks[i].writes) = 1

\* C2: every recipient of the pending snapshot receives a send attempt,
\* whatever errors the other recipients' tasks raise, and no such error leaves
\* the join: a run that has started its tasks answers with the report, never
\* with the run-level error.
C2_PerRecipientIsolation ==
    \A r \in Runs :
        /\ runs[r].pc = "join" =>
              /\ Len(runs[r].tasks) = Len(runs[r].pendingEmails)
              /\ \A i \in TaskIdx(r) :
                    /\ runs[r].tasks[i].id = runs[r].pendingEmails[i].id
                    /\ runs[r].tasks[i].sendCalls = 1
        /\ (Responded(r) /\ runs[r].tasks # <<>>) =>
              /\ runs[r].res.status = 200
              /\ runs[r].res.message = "Successfully sent"
              /\ Len(runs[r].tasks) = Len(runs[r].pendingEmails)
              /\ \A i \in TaskIdx(r) : runs[r].tasks[i].sendCalls = 1

\* A run over every recipient has answered although the task of the first
\* recipient rejected and the send of the last succeeded.
C2_Witness ==
    \E r \in Runs :
        /\ Reported(r)
        /\ Len(runs[r].tasks) = NumRecipients
        /\ runs[r].tasks[1].pc = "rejected"
        /\ runs[r].tasks[1].sendOk = "error"
        /\ runs[r].tasks[NumRecipients].sendOk = "ok"

\* C3: in a run over N pending recipients whose status writes all succeed and
\* in which the sends of a subset F fail, N-|F| writes of SENT and |F| writes
\* of FAILED are issued, the report holds one result per recipient in snapshot
\* order, and the statistics are total = N, success = N-|F|, failed = |F|; in
\* every run success + failed = total.
C3_ReportCounts ==
    \A r \in Runs :
        Reported(r) =>
            LET run == runs[r]
                N   == Len(run.pendingEmails)
                F   == FailedSends(r)
                st  == run.res.statistics
            IN  /\ st.success + st.failed = st.total
                /\ (\A i \in TaskIdx(r) : run.tasks[i].failedWrites = 0) =>
                      /\ Cardinality({i \in TaskIdx(r) : run.tasks[i].writes = <<"SENT">>})
                            = N - Cardinality(F)
                      /\ Cardinality({i \in TaskIdx(r) : run.tasks[i].writes = <<"FAILED">>})
                            = Cardinality(F)
                      /\ \A i \in TaskIdx(r) :
                            store[run.tasks[i].id].status
                                = (IF i \in F THEN "FAILED" ELSE "SENT")
                      /\ Len(run.res.results) = N
                      /\ \A i \in 1..N :
                            /\ run.res.results[i].email = run.pendingEmails[i].emailAddress
                            /\ run.res.results[i].success = (i \notin F)
                      /\ st.total = N
                      /\ st.success = N - Cardinality(F)
                      /\ st.failed = Cardinality(F)

\* A run over every recipient has reported, all its writes succeeded, and the
\* sends of some but not all recipients failed.
C3_Witness ==
    \E r \in Runs :
        /\ Reported(r)
        /\ Len(runs[r].tasks) = NumRecipients
        /\ \A i \in TaskIdx(r) : runs[r].tasks[i].failedWrites = 0
        /\ FailedSends(r) # {}
        /\ FailedSends(r) # TaskIdx(r)

\* C4: when the store update recording a recipient's outcome fails, the result
\* returned for the recipient still reflects the transport send: a recipient
\* whose sendMail succeeded has success = true and is counted in
\* statistics.success.
C4_ResultReflectsSend ==
    \A r \in Runs :
        Reported(r) =>
            /\ \A i \in TaskIdx(r) :
                  runs[r].tasks[i].sendOk = "ok" => runs[r].res.results[i].success
            /\ runs[r].res.statistics.success
                  = Cardinality({i \in TaskIdx(r) : runs[r].tasks[i].sendOk = "ok"})

\* C5: a failed status write of recipient A prevents neither the send attempt
\* nor the status write of any other recipient B of the run, and the run still
\* answers 200 with results and statistics covering all N recipients.
C5_WriteFailureIsolated ==
    \A r \in Runs :
        (Dispatching(r) /\ \E a \in TaskIdx(r) : runs[r].tasks[a].failedWrites > 0) =>
            /\ Len(runs[r].tasks) = Len(runs[r].pendingEmails)
            /\ \A b \in TaskIdx(r) : runs[r].tasks[b].sendCalls = 1
            /\ Responded(r) =>
                  /\ \A b \in TaskIdx(r) :
                        Settled(runs[r].tasks[b]) /\ runs[r].tasks[b].writes # <<>>
                  /\ runs[r].res.status = 200
                  /\ Len(runs[r].res.results) = Len(runs[r].pendingEmails)
                  /\ runs[r].res.statistics.total = Len(runs[r].pendingEmails)

\* A run has reported in which both status writes of one recipient failed
\* and the status write of another was applied to the store.
C5_Witness ==
    \E r \in Runs :
        /\ Reported(r)
        /\ \E a, b \in TaskIdx(r) :
              /\ a # b
              /\ runs[r].tasks[a].pc = "rejected"
              /\ runs[r].tasks[b].failedWrites = 0
              /\ runs[r].tasks[b].sendOk = "ok"
              /\ store[runs[r].tasks[b].id].status = "SENT"

\* The tasks, over all runs in progress, that have called sendMail for record id.
SendsTo(id) ==
    {p \in Runs \X (1..NumRecipients) :
        /\ p[2] <= Len(runs[p[1]].tasks)
        /\ runs[p[1]].tasks[p[2]].id = id
        /\ runs[p[1]].tasks[p[2]].sendCalls = 1}

\* The tasks, over all runs in progress, whose status write was applied to
\* record id.
AppliedWritesTo(id) ==
    {p \in SendsTo(id) : runs[p[1]].tasks[p[2]].pc = "fulfilled"}

\* C6: across dispatch invocations, overlapping ones included, a recipient
\* receives at most one send attempt, and once its status is SENT or FAILED the
\* status is not written again.
C6_AtMostOneAttempt ==
    \A id \in Ids :
        /\ Cardinality(SendsTo(id)) <= 1
        /\ Cardinality(AppliedWritesTo(id)) <= 1

\* C7: every temporary file written to the tmp directory for a request is
\* deleted before the handler responds, on every exit path.
C7_TmpFilesDeleted ==
    \A r \in Runs : Responded(r) => runs[r].uploaded = {}

\* The subject or the content of run r is missing.
MissingInput(r) == runs[r].subject = <<>> \/ runs[r].content = <<>>

\* C8: a request rejected for a validation error (missing subject or content,
\* an attachment that is not a PDF or is larger than 10 MiB) performs no
\* transport send and no status write: the run never starts a task, no record
\* is in flight, and the rejection is the run's answer.
C8_RejectionSendsNothing ==
    \A r \in Runs :
        /\ (Active(runs[r]) /\ MissingInput(r)) =>
              /\ Responded(r)
              /\ runs[r].res.status \in {400, 500}
              /\ runs[r].tasks = <<>>
              /\ runs[r].verifyCalls = 0
        /\ (Responded(r) /\ runs[r].res.status = 400) =>
              /\ runs[r].tasks = <<>>
              /\ runs[r].res.message # "Successfully sent"

\* A request with a subject and no content has been rejected with 400 while
\* every record of the store is pending.
C8_Witness ==
    \E r \in Runs :
        /\ Responded(r)
        /\ runs[r].res.status = 400
        /\ runs[r].subject # <<>>
        /\ runs[r].content = <<>>
        /\ \A id \in Ids : store[id] = NewRecord(id)

\* C9: transporter.verify() is called once per dispatch run, before any send;
\* when it fails the run fails with the one run-level error, no recipient
\* receives a send attempt and no record is written.
C9_VerifyOnceBeforeSend ==
    \A r \in Runs :
        /\ runs[r].verifyCalls <= 1
        /\ (runs[r].pc \in {"findMany", "attachments", "fanout", "join"}
              \/ runs[r].pendingEmails # <<>> \/ runs[r].tasks # <<>>) =>
              /\ runs[r].verifyCalls = 1
              /\ runs[r].verified = "ok"
        /\ runs[r].pc = "verify" =>
              /\ runs[r].verified = "none"
              /\ runs[r].tasks = <<>>
        /\ runs[r].verified = "error" =>
              /\ Responded(r)
              /\ runs[r].res = Response(500, "Failed to send emails")
              /\ runs[r].pendingEmails = <<>>
              /\ runs[r].tasks = <<>>

\* A run whose verify() failed has answered while every record of the store
\* is pending.
C9_Witness ==
    \E r \in Runs :
        /\ Responded(r)
        /\ runs[r].verified = "error"
        /\ runs[r].verifyCalls = 1
        /\ \A id \in Ids : store[id] = NewRecord(id)

\* validateTemplate reports an unsupported placeholder in the template of run r.
UnsupportedPlaceholder(r) ==
    LET errors == validateTemplate(runs[r].subject, runs[r].content)
    IN  \E i \in 1..Len(errors) : errors[i][1] = "Unsupported placeholder"

\* C10: a template with a {{token}} whose key is not name, company or
\* position is never accepted into a dispatch run: no send attempt is made with
\* such a subject or content.
C10_UnsupportedNeverSent ==
    \A r \in Runs : UnsupportedPlaceholder(r) => runs[r].tasks = <<>>


\* Run r has answered 200 without dispatching: the snapshot of the pending
\* records was empty.
NothingPending(r) ==
    /\ Responded(r)
    /\ runs[r].res.status = 200
    /\ runs[r].tasks = <<>>

\* C11: a dispatch invoked when no recipient is pending returns a report with
\* statistics {total: 0, success: 0, failed: 0}, performs no send and no store
\* write, and leaves every SENT and FAILED record as it was.
C11_EmptyRunReport ==
    \A r \in Runs :
        NothingPending(r) =>
            /\ \A id \in Ids : store[id].status # "PENDING"
            /\ "statistics" \in DOMAIN runs[r].res
            /\ runs[r].res.statistics.total = 0
            /\ runs[r].res.statistics.success = 0
            /\ runs[r].res.statistics.failed = 0

\* C12: a failed status write that leaves the record of a recipient that was
\* sent diverging from the send outcome is surfaced as a distinct warning: the
\* report carries a warning, or the recipient's result does not have the form
\* {success: false, error} that a failed send has.
C12_WriteFailureSurfaced ==
    \A r \in Runs :
        Reported(r) =>
            \A i \in TaskIdx(r) :
                (runs[r].tasks[i].sendOk = "ok" /\ runs[r].tasks[i].failedWrites > 0) =>
                    \/ "warnings" \in DOMAIN runs[r].res
                    \/ "warning" \in DOMAIN runs[r].res.results[i]
                    \/ runs[r].res.results[i].success

\* C16: after a dispatch run the persisted status of every attempted recipient
\* agrees with its send outcome: SENT (sentAt set, errorMessage cleared) only
\* if the send succeeded, FAILED (errorMessage set) only if the send failed.
C16_StatusAgreesWithSend ==
    \A r \in Runs :
        Reported(r) =>
            \A i \in TaskIdx(r) :
                LET rec == store[runs[r].tasks[i].id]
                IN  /\ rec.status = "SENT" =>
                          /\ runs[r].tasks[i].sendOk = "ok"
                          /\ rec.sentAt # "null"
                          /\ rec.errorMessage = "null"
                    /\ rec.status = "FAILED" =>
                          /\ runs[r].tasks[i].sendOk = "error"
                          /\ rec.errorMessage # "null"


\* C17: once a run has started sending, the report is computed and returned
\* only after every recipient's attempt has settled (no attempt is pending,
\* abandoned or cancelled when the response is emitted), and if every send
\* and store call settles the run returns its report.
C17_FanOutSettle ==
    /\ [](\A r \in Runs :
            (Responded(r) /\ runs[r].tasks # <<>>) =>
                /\ Len(runs[r].tasks) = Len(runs[r].pendingEmails)
                /\ \A i \in TaskIdx(r) : Settled(runs[r].tasks[i]))
    /\ \A r \in Runs : (runs[r].pc = "join") ~> Reported(r)

\* A run over every recipient has reported after its first task was
\* fulfilled and its last task was rejected.
C17_Witness ==
    \E r \in Runs :
        /\ Reported(r)
        /\ Len(runs[r].tasks) = NumRecipients
        /\ runs[r].tasks[1].pc = "fulfilled"
        /\ runs[r].tasks[NumRecipients].pc = "rejected"

\* The file parts of the request answered last are all PDF files of at most
\* MaxFileSize each.
PostedWithinFileLimits ==
    \A i \in 1..Len(ui.posted) :
        ui.posted[i].mimetype = PDF /\ ui.posted[i].size <= MaxFileSize

\* C13: the attachments used in one run never total more than 25 MiB: a set
\* of PDF files of at most 10 MiB each that totals more than 25 MiB is
\* rejected at intake, a set that totals at most 25 MiB is accepted, and a
\* request holding a PDF file over 10 MiB is rejected whatever the total.
C13_AggregateLimit ==
    ui.outcome # "none" =>
        /\ ui.outcome = "ok" => ui.attached <= MaxTotalSize
        /\ (PostedWithinFileLimits /\ TotalSize(ui.posted) > MaxTotalSize)
              => ui.outcome # "ok"
        /\ (PostedWithinFileLimits /\ TotalSize(ui.posted) <= MaxTotalSize)
              => ui.outcome = "ok"
        /\ (\E i \in 1..Len(ui.posted) :
                ui.posted[i].mimetype = PDF /\ ui.posted[i].size > MaxFileSize)
              => ui.outcome # "ok"

\* The text the documented substitution gives for s: in one pass over s, every
\* placeholder {{k}} becomes the value of k in data, or the empty text when
\* data has no key k, and every other character is kept.
ValueOf(data, key) ==
    IF \E n \in 1..Len(data) : data[n][1] = key
    THEN data[CHOOSE n \in 1..Len(data) : data[n][1] = key][2]
    ELSE <<>>

RECURSIVE OnePass(_, _, _)
OnePass(s, data, i) ==
    IF i > Len(s) THEN <<>>
    ELSE LET k == NonBraceRun(s, i + 2)
         IN  IF MatchAt(s, i)
             THEN ValueOf(data, SubSeq(s, i + 2, i + 1 + k)) \o OnePass(s, data, i + 4 + k)
             ELSE <<s[i]>> \o OnePass(s, data, i + 1)

\* No value of the data holds a brace.
PlainValues(data) ==
    \A n \in 1..Len(data) : \A k \in 1..Len(data[n][2]) : ~IsBrace(data[n][2][k])

\* Some value of the data is a placeholder of another key of the data.
NestedValues(data) ==
    \E n, m \in 1..Len(data) : n # m /\ data[n][2] = Token(data[m][1])

\* C14: parseTemplate(T, M) replaces every {{k}} of the subject and of the
\* body by M[k] when k is a key of M and by the empty text otherwise, and
\* changes nothing else (stated for the M whose values hold no placeholder).
C14_SubstitutionTotal ==
    (call.done /\ PlainValues(call.data)) =>
        /\ call.result.subject = OnePass(call.template.subject, call.data, 1)
        /\ call.result.body = OnePass(call.template.body, call.data, 1)

\* Every placeholder of the template is a key of the data.
KeysCovered(template, data) ==
    \A key \in Range(MatchAll(template.subject, 1)) \cup Range(MatchAll(template.body, 1)) :
        \E n \in 1..Len(data) : data[n][1] = key

\* C15: substitution is one pass: when the value of k1 holds {{k2}} and k2 is
\* a key of M too, the result holds the value of k1 as it is, the {{k2}} in it
\* not replaced, whatever the order of the keys (stated for the templates all
\* of whose placeholders are keys of M).
C15_SinglePass ==
    (call.done /\ NestedValues(call.data) /\ KeysCovered(call.template, call.data)) =>
        /\ call.result.subject = OnePass(call.template.subject, call.data, 1)
        /\ call.result.body = OnePass(call.template.body, call.data, 1)

====
